---- MODULE Spec2Model ----
(***************************************************************************)
(* Model of the note store: the entity model (src/models.rs,               *)
(* src/models/note.rs), the Persister contract with its default methods    *)
(* (src/persistence.rs) and the in-memory engine                           *)
(* (src/persistence/memory.rs).                                            *)
(*                                                                         *)
(* A Vec is a sequence: position i of the Vec (0-based) is element i + 1   *)
(* of the sequence.  An Option is a sequence of length 0 (None) or 1       *)
(* (Some).  A HashSet<Tag> is a set of Tag records, so that membership is  *)
(* equality of the whole Tag (id and label), as derived in models.rs.      *)
(***************************************************************************)
EXTENDS Integers, Sequences, FiniteSets

VARIABLES notes, tags, last, mutex, pc, gone

vars == <<notes, tags, last, mutex, pc, gone>>

(***************************************************************************)
(* Bounds of the model: the number of notes a run may store, and the       *)
(* number of notes the service with concurrent requests may store.         *)
(***************************************************************************)
MaxNotes == 3

MaxStored == 2

(***************************************************************************)
(* Entity model.                                                           *)
(***************************************************************************)
Visibility == {"Private", "Public", "Deleted"}

Tag_new(id, label) == [id |-> id, label |-> label]

User(id) == [id |-> id, name |-> ""]

Draft_new(title, body, labels, visibility) ==
    [title |-> title, body |-> body, tags |-> labels, visibility |-> visibility]

Draft_default == Draft_new("", "", <<>>, "Private")

Note_new_swapped_text(draft, id, user, tagset) ==
    [id |-> id, title |-> draft.body, body |-> draft.title, tags |-> tagset,
     user |-> user, visibility |-> draft.visibility]

Note_new(draft, id, user, tagset) ==
    [id |-> id, title |-> draft.title, body |-> draft.body, tags |-> tagset,
     user |-> user, visibility |-> draft.visibility]

(***************************************************************************)
(* impl From<&Note> for Draft.  The labels are collected by iterating the  *)
(* note's HashSet<Tag>, whose order is not specified: `order` is the       *)
(* sequence in which the iteration yields the tags.                        *)
(***************************************************************************)
Draft_from_default_visibility(n, order) ==
    Draft_new(n.title, n.body, [i \in 1..Len(order) |-> order[i].label], "Private")

Draft_from(n, order) ==
    Draft_new(n.title, n.body, [i \in 1..Len(order) |-> order[i].label],
              n.visibility)

tagged_with_label_only(note, tag) == \E t \in note.tags : t.label = tag.label

tagged_with(note, tag) == tag \in note.tags

None == <<>>

Some(x) == <<x>>

(***************************************************************************)
(* Iterator::find is `first` of the elements that satisfy the predicate.    *)
(***************************************************************************)
Range(s) == {s[i] : i \in 1..Len(s)}

first(hits) == IF hits = <<>> THEN None ELSE Some(Head(hits))

(***************************************************************************)
(* In-memory engine: tag resolution.  The loop of map_tags runs over the   *)
(* labels in order; `store` is self.tags and `acc` the Tags set built so   *)
(* far.  The result holds the Tags set and self.tags after the call.       *)
(***************************************************************************)
RECURSIVE map_tags_loop(_, _, _)
map_tags_loop(store, labels, acc) ==
    IF labels = <<>>
    THEN [tags |-> acc, store |-> store]
    ELSE LET label == Head(labels)
             hit == first(SelectSeq(store,
                                   LAMBDA existing_tag : existing_tag.label = label))
         IN IF hit # None
            THEN map_tags_loop(store, Tail(labels), acc \cup {hit[1]})
            ELSE LET tag == Tag_new(Len(store), label)
                 IN map_tags_loop(Append(store, tag), Tail(labels), acc \cup {tag})

RECURSIVE map_tags_always_new_loop(_, _, _)
map_tags_always_new_loop(store, labels, acc) ==
    IF labels = <<>>
    THEN [tags |-> acc, store |-> store]
    ELSE LET tag == Tag_new(Len(store), Head(labels))
         IN map_tags_always_new_loop(Append(store, tag), Tail(labels), acc \cup {tag})

map_tags_always_new(store, labels) == map_tags_always_new_loop(store, labels, {})

RECURSIVE map_tags_stale_scan_loop(_, _, _, _)
map_tags_stale_scan_loop(scanned, store, labels, acc) ==
    IF labels = <<>>
    THEN [tags |-> acc, store |-> store]
    ELSE LET label == Head(labels)
             hit == first(SelectSeq(scanned,
                                   LAMBDA existing_tag : existing_tag.label = label))
         IN IF hit # None
            THEN map_tags_stale_scan_loop(scanned, store, Tail(labels),
                                          acc \cup {hit[1]})
            ELSE LET tag == Tag_new(Len(store), label)
                 IN map_tags_stale_scan_loop(scanned, Append(store, tag),
                                             Tail(labels), acc \cup {tag})

map_tags_stale_scan(store, labels) ==
    map_tags_stale_scan_loop(store, store, labels, {})

map_tags_one_based(store, labels) ==
    LET r == map_tags_loop(store, labels, {})
        renumber(t) == IF t \in Range(store) THEN t ELSE Tag_new(t.id + 1, t.label)
    IN [tags |-> {renumber(t) : t \in r.tags},
        store |-> [j \in 1..Len(r.store) |-> renumber(r.store[j])]]

map_tags_newest_first(store, labels) ==
    LET r == map_tags_loop(store, labels, {})
    IN [tags |-> r.tags,
        store |-> SubSeq(r.store, Len(store) + 1, Len(r.store)) \o store]

map_tags(store, labels) == map_tags_loop(store, labels, {})

(***************************************************************************)
(* In-memory engine and Persister defaults: the queries.                   *)
(***************************************************************************)
active_always(note) == TRUE

active(note) == note.visibility # "Deleted"

notes_of(ns) == SelectSeq(ns, active)

tags_of(ts) == ts

note(ns, id) == first(SelectSeq(notes_of(ns), LAMBDA n : n.id = id))

tag(ts, label) == first(SelectSeq(tags_of(ts), LAMBDA t : t.label = label))

user_notes_unfiltered(ns, user) == SelectSeq(ns, LAMBDA n : n.user = user.id)

user_notes(ns, user) ==
    SelectSeq(SelectSeq(ns, LAMBDA n : n.user = user.id), active)

tagged_notes(ns, t) ==
    SelectSeq(SelectSeq(ns, LAMBDA n : tagged_with(n, t)), active)

(***************************************************************************)
(* In-memory engine: the mutating operations, as functions from the store  *)
(* before the call (ns = self.notes, ts = self.tags) to the store after    *)
(* it, the outcome ("ok", or "panic" for expect / panic!) and the value    *)
(* returned.                                                               *)
(***************************************************************************)
add_note_one_based(ns, ts, draft, user) ==
    LET id == Len(ns) + 1
        mt == map_tags(ts, draft.tags)
        ns2 == Append(ns, Note_new(draft, id, user.id, mt.tags))
        r == note(ns2, id)
    IN [notes |-> ns2, tags |-> mt.store,
        outcome |-> IF r = None THEN "panic" ELSE "ok", ret |-> r]

add_note(ns, ts, draft, user) ==
    LET id == Len(ns)
        mt == map_tags(ts, draft.tags)
        ns2 == Append(ns, Note_new(draft, id, user.id, mt.tags))
        r == note(ns2, id)
    IN [notes |-> ns2, tags |-> mt.store,
        outcome |-> IF r = None THEN "panic" ELSE "ok", ret |-> r]

update_note_default_owner(ns, ts, draft, id) ==
    LET index == id
        mt == map_tags(ts, draft.tags)
    IN IF index < Len(ns)
       THEN LET new_note == Note_new(draft, index, User(0).id, mt.tags)
            IN [notes |-> [ns EXCEPT ![index + 1] = new_note], tags |-> mt.store,
                outcome |-> "ok", ret |-> Some(new_note)]
       ELSE [notes |-> ns, tags |-> mt.store, outcome |-> "panic", ret |-> None]

update_note_upsert(ns, ts, draft, id) ==
    LET index == id
        mt == map_tags(ts, draft.tags)
    IN IF index < Len(ns)
       THEN LET user == ns[index + 1].user
                new_note == Note_new(draft, index, user, mt.tags)
            IN [notes |-> [ns EXCEPT ![index + 1] = new_note], tags |-> mt.store,
                outcome |-> "ok", ret |-> Some(new_note)]
       ELSE LET new_note == Note_new(draft, Len(ns), User(0).id, mt.tags)
            IN [notes |-> Append(ns, new_note), tags |-> mt.store,
                outcome |-> "ok", ret |-> Some(new_note)]

update_note(ns, ts, draft, id) ==
    LET index == id
        mt == map_tags(ts, draft.tags)
    IN IF index < Len(ns)
       THEN LET user == ns[index + 1].user
                new_note == Note_new(draft, index, user, mt.tags)
            IN [notes |-> [ns EXCEPT ![index + 1] = new_note], tags |-> mt.store,
                outcome |-> "ok", ret |-> Some(new_note)]
       ELSE [notes |-> ns, tags |-> mt.store, outcome |-> "panic", ret |-> None]

delete_note_removing(ns, ts, id) ==
    LET idx == id
    IN IF idx < Len(ns)
       THEN [notes |-> SubSeq(ns, 1, idx) \o SubSeq(ns, idx + 2, Len(ns)),
             tags |-> ts, outcome |-> "ok", ret |-> TRUE]
       ELSE [notes |-> ns, tags |-> ts, outcome |-> "ok", ret |-> FALSE]

delete_note_last_on_miss(ns, ts, id) ==
    LET idx == IF id < Len(ns) THEN id ELSE Len(ns) - 1
    IN IF 0 <= idx /\ idx < Len(ns)
       THEN [notes |-> [ns EXCEPT ![idx + 1].visibility = "Deleted"], tags |-> ts,
             outcome |-> "ok", ret |-> TRUE]
       ELSE [notes |-> ns, tags |-> ts, outcome |-> "ok", ret |-> FALSE]

delete_note_wiping(ns, ts, id) ==
    LET idx == id
    IN IF idx < Len(ns)
       THEN [notes |-> [ns EXCEPT ![idx + 1].visibility = "Deleted",
                                  ![idx + 1].tags = {}],
             tags |-> ts, outcome |-> "ok", ret |-> TRUE]
       ELSE [notes |-> ns, tags |-> ts, outcome |-> "ok", ret |-> FALSE]

delete_note_once(ns, ts, id) ==
    LET idx == id
    IN IF idx < Len(ns) /\ ns[idx + 1].visibility # "Deleted"
       THEN [notes |-> [ns EXCEPT ![idx + 1].visibility = "Deleted"], tags |-> ts,
             outcome |-> "ok", ret |-> TRUE]
       ELSE [notes |-> ns, tags |-> ts, outcome |-> "ok", ret |-> FALSE]

delete_note(ns, ts, id) ==
    LET idx == id
    IN IF idx < Len(ns)
       THEN [notes |-> [ns EXCEPT ![idx + 1].visibility = "Deleted"], tags |-> ts,
             outcome |-> "ok", ret |-> TRUE]
       ELSE [notes |-> ns, tags |-> ts, outcome |-> "ok", ret |-> FALSE]

add_tag_always_append(ns, ts, label) ==
    LET id == Len(ts)
    IN [notes |-> ns, tags |-> Append(ts, Tag_new(id, label)),
        outcome |-> "ok", ret |-> id]

add_tag(ns, ts, label) ==
    LET hits == SelectSeq(ts, LAMBDA existing_tag : existing_tag.label = label)
    IN IF hits # <<>>
       THEN [notes |-> ns, tags |-> ts, outcome |-> "ok", ret |-> Head(hits).id]
       ELSE LET id == Len(ts)
            IN [notes |-> ns, tags |-> Append(ts, Tag_new(id, label)),
                outcome |-> "ok", ret |-> id]

(***************************************************************************)
(* Inputs.  The drafts are those of the engine's tests (the default draft, *)
(* and "Foo" with the labels foo and bar), a draft with other texts and    *)
(* one label, and a draft that repeats a label and is marked Deleted.      *)
(* Users are the default user (id 0) and one other.  Ids range over the    *)
(* slots a run can fill and one that it never fills.                       *)
(***************************************************************************)
Labels == {"foo", "bar"}

Drafts ==
    {Draft_default,
     Draft_new("Foo", "Foo", <<"foo", "bar">>, "Public"),
     Draft_new("FooTitle", "BarBody", <<"foo">>, "Private"),
     Draft_new("Foo", "Foo", <<"bar", "foo", "bar">>, "Deleted")}

Users == {User(0), User(1)}

Ids == 0..MaxNotes

(***************************************************************************)
(* The lock on the engine (AppState.data: Arc<Mutex<P>>) and the tasks     *)
(* that serve requests.  The mutex records the task that holds its guard   *)
(* and whether a holder panicked (the mutex is then poisoned).  A task is  *)
(* at a stage of its handler: "idle" before its first request, "lock"      *)
(* when it is about to call state.data.lock(), "body" when it holds the    *)
(* guard, "mutate" when it holds the guard and has passed the existence    *)
(* and ownership checks, "done" when it has answered with `status`, and    *)
(* "panicked" when it ended in the panic `panic` without an answer.        *)
(* `late` tells that the request was received after a DELETE of its id had *)
(* answered 200.                                                           *)
(***************************************************************************)
Tasks == {1, 2}

Mutex_new == [holder |-> None, poisoned |-> FALSE]

lock_ready_always(m) == TRUE

lock_ready(m) == m.holder = None

unlock(m, panicking) == [holder |-> None, poisoned |-> m.poisoned \/ panicking]

Task(stage, op, id, draft, label, late, status, panic) ==
    [stage |-> stage, op |-> op, id |-> id, draft |-> draft, label |-> label,
     late |-> late, status |-> status, panic |-> panic]

Idle == Task("idle", "", 0, Draft_default, "", FALSE, 0, "")

(***************************************************************************)
(* State machine: one engine (InMemoryStorage::default()), one Persister   *)
(* call per step.  `last` is the record of the call just made: its         *)
(* arguments, its outcome and the value it returned (note: Option<Note>,   *)
(* flag: bool, rid: Id).  A panic ends the run: nothing is called on the   *)
(* engine afterwards.                                                      *)
(***************************************************************************)
Call(op, draft, id, user, label, outcome, n, flag, rid) ==
    [op |-> op, draft |-> draft, id |-> id, user |-> user, label |-> label,
     outcome |-> outcome, note |-> n, flag |-> flag, rid |-> rid]

Init ==
    /\ notes = <<>>
    /\ tags = <<>>
    /\ last = Call("default", Draft_default, 0, User(0), "", "ok", None, FALSE, 0)
    /\ mutex = Mutex_new
    /\ pc = [t \in Tasks |-> Idle]
    /\ gone = {}

Running == last.outcome = "ok"

AddNote ==
    /\ Running
    /\ Len(notes) < MaxNotes
    /\ \E draft \in Drafts, user \in Users :
         LET r == add_note(notes, tags, draft, user)
         IN /\ notes' = r.notes
            /\ tags' = r.tags
            /\ last' = Call("add_note", draft, 0, user, "", r.outcome, r.ret, FALSE, 0)
            /\ UNCHANGED <<mutex, pc, gone>>

UpdateNote ==
    /\ Running
    /\ \E draft \in Drafts, id \in Ids :
         LET r == update_note(notes, tags, draft, id)
         IN /\ notes' = r.notes
            /\ tags' = r.tags
            /\ last' = Call("update_note", draft, id, User(0), "", r.outcome, r.ret,
                            FALSE, 0)
            /\ UNCHANGED <<mutex, pc, gone>>

DeleteNote ==
    /\ Running
    /\ \E id \in Ids :
         LET r == delete_note(notes, tags, id)
         IN /\ notes' = r.notes
            /\ tags' = r.tags
            /\ last' = Call("delete_note", Draft_default, id, User(0), "", r.outcome,
                            None, r.ret, 0)
            /\ UNCHANGED <<mutex, pc, gone>>

AddTag ==
    /\ Running
    /\ \E label \in Labels :
         LET r == add_tag(notes, tags, label)
         IN /\ notes' = r.notes
            /\ tags' = r.tags
            /\ last' = Call("add_tag", Draft_default, 0, User(0), label, r.outcome,
                            None, FALSE, r.ret)
            /\ UNCHANGED <<mutex, pc, gone>>

Next == AddNote \/ UpdateNote \/ DeleteNote \/ AddTag

Spec == Init /\ [][Next]_vars

(***************************************************************************)
(* Request handlers (src/main.rs).  Every handler resolves the acting user *)
(* to User::default(), takes the lock on the engine for its whole body and *)
(* makes its Persister calls under it, so a handler is one step.  The      *)
(* result holds the store the handler leaves, its outcome, the status it   *)
(* answers with and the note or the list it sends.                         *)
(***************************************************************************)
Response(ns, ts, outcome, status, n, list) ==
    [notes |-> ns, tags |-> ts, outcome |-> outcome, status |-> status,
     note |-> n, list |-> list]

handler_root(ns, ts) == Response(ns, ts, "ok", 200, None, notes_of(ns))

handler_notes(ns, ts) ==
    LET user == User(0)
    IN Response(ns, ts, "ok", 200, None, user_notes(ns, user))

handler_get_note(ns, ts, id) ==
    LET user == User(0)
        found == note(ns, id)
    IN IF found = None
       THEN Response(ns, ts, "ok", 404, None, <<>>)
       ELSE IF found[1].user = user.id
            THEN Response(ns, ts, "ok", 200, found, <<>>)
            ELSE Response(ns, ts, "ok", 401, None, <<>>)

handler_add_note(ns, ts, draft) ==
    LET user == User(0)
        r == add_note(ns, ts, draft, user)
    IN Response(r.notes, r.tags, r.outcome, IF r.outcome = "ok" THEN 200 ELSE 0,
                r.ret, <<>>)

handler_edit_note(ns, ts, id, draft) ==
    LET user == User(0)
        found == note(ns, id)
    IN IF found = None
       THEN Response(ns, ts, "ok", 404, None, <<>>)
       ELSE IF found[1].user # user.id
            THEN Response(ns, ts, "ok", 401, None, <<>>)
            ELSE LET r == update_note(ns, ts, draft, id)
                 IN Response(r.notes, r.tags, r.outcome,
                             IF r.outcome = "ok" THEN 200 ELSE 0, r.ret, <<>>)

handler_delete_note(ns, ts, id) ==
    LET user == User(0)
        found == note(ns, id)
    IN IF found = None
       THEN Response(ns, ts, "ok", 404, None, <<>>)
       ELSE IF found[1].user # user.id
            THEN Response(ns, ts, "ok", 401, None, <<>>)
            ELSE LET r == delete_note(ns, ts, id)
                 IN Response(r.notes, r.tags, r.outcome, 200, None, <<>>)

handler_tagged_notes_creating(ns, ts, tag_label) ==
    LET user == User(0)
        r == add_tag(ns, ts, tag_label)
        t == Tag_new(r.ret, tag_label)
    IN Response(r.notes, r.tags, "ok", 200, None,
                SelectSeq(tagged_notes(r.notes, t), LAMBDA n : n.user = user.id))

handler_tagged_notes(ns, ts, tag_label) ==
    LET user == User(0)
        found == tag(ts, tag_label)
    IN IF found = None
       THEN Response(ns, ts, "ok", 400, None, <<>>)
       ELSE Response(ns, ts, "ok", 200, None,
                     SelectSeq(tagged_notes(ns, found[1]),
                               LAMBDA n : n.user = user.id))

handler_tags(ns, ts) == Response(ns, ts, "ok", 200, None, tags_of(ts))

(***************************************************************************)
(* State machine of the service: one engine behind the lock, one request   *)
(* per step.  Path labels are the labels of the drafts and one that no     *)
(* draft carries.  `last` is the request just served.  A panic under the   *)
(* guard ends that request without an answer and poisons the mutex; every  *)
(* later request panics when it takes the lock and leaves the engine as it *)
(* is.                                                                     *)
(***************************************************************************)
PathLabels == Labels \cup {"nonexistent"}

Request(op, draft, id, label, r) ==
    [op |-> op, draft |-> draft, id |-> id, user |-> User(0), label |-> label,
     outcome |-> r.outcome, note |-> r.note, flag |-> FALSE, rid |-> 0,
     status |-> r.status, list |-> r.list]

\* What a handler does on a poisoned mutex: lock() returns an error and
\* expect("mutex was poisoned") panics before any call on the engine.
Poisoned(ns, ts) == Response(ns, ts, "panic", 0, None, <<>>)

\* One request served: the handler takes the lock, runs its body (result r)
\* and drops the guard, which poisons the mutex when the body panicked.
Served(op, draft, id, label, r) ==
    LET res == IF mutex.poisoned THEN Poisoned(notes, tags) ELSE r
    IN /\ notes' = res.notes
       /\ tags' = res.tags
       /\ last' = Request(op, draft, id, label, res)
       /\ mutex' = unlock(mutex, res.outcome = "panic")
       /\ UNCHANGED <<pc, gone>>

GetRoot ==
    /\ Served("GET /", Draft_default, 0, "", handler_root(notes, tags))

GetNotes ==
    /\ Served("GET /notes", Draft_default, 0, "", handler_notes(notes, tags))

GetNote ==
    /\ \E id \in Ids :
         Served("GET /note/:id", Draft_default, id, "",
                handler_get_note(notes, tags, id))

PostNote ==
    /\ Len(notes) < MaxNotes
    /\ \E draft \in Drafts :
         Served("POST /note", draft, 0, "", handler_add_note(notes, tags, draft))

PutNote ==
    /\ \E id \in Ids, draft \in Drafts :
         Served("PUT /note/:id", draft, id, "",
                handler_edit_note(notes, tags, id, draft))

DeleteNoteRequest ==
    /\ \E id \in Ids :
         Served("DELETE /note/:id", Draft_default, id, "",
                handler_delete_note(notes, tags, id))

GetTaggedNotes ==
    /\ \E tag_label \in PathLabels :
         Served("GET /notes/tag/:tag_label", Draft_default, 0, tag_label,
                handler_tagged_notes(notes, tags, tag_label))

GetTags ==
    /\ Served("GET /tags", Draft_default, 0, "", handler_tags(notes, tags))

NextHttp ==
    \/ GetRoot
    \/ GetNotes
    \/ GetNote
    \/ PostNote
    \/ PutNote
    \/ DeleteNoteRequest
    \/ GetTaggedNotes
    \/ GetTags

SpecHttp == Init /\ [][NextHttp]_vars

(***************************************************************************)
(* State machine of the service under concurrent requests: one engine      *)
(* behind the mutex, and tasks that each serve one request at a time.  A   *)
(* handler is several steps: the task receives the request, takes the      *)
(* lock (lock() blocks while another task holds the guard; on a poisoned   *)
(* mutex it returns an error and expect() panics), and runs its body under *)
(* the guard.  edit_note and delete_note first look the note up and check  *)
(* its owner, and then, still under the same guard, call update_note or    *)
(* delete_note.  The guard is dropped when the handler returns or unwinds; *)
(* dropping it while unwinding poisons the mutex.  The panic of a handler  *)
(* ends that request without an answer; the task serves further requests.  *)
(* `gone` holds the ids for which a DELETE has answered 200.               *)
(***************************************************************************)
ServerDrafts ==
    {Draft_new("Foo", "Foo", <<"foo", "bar">>, "Public"),
     Draft_new("Foo", "Foo", <<"bar", "foo", "bar">>, "Deleted")}

SlotIds == 0..MaxStored

NoteRoutes == {"GET /note/:id", "PUT /note/:id", "DELETE /note/:id"}

Route(op, id, draft, label) == [op |-> op, id |-> id, draft |-> draft, label |-> label]

Requests ==
    {Route("GET /", 0, Draft_default, ""),
     Route("GET /notes", 0, Draft_default, ""),
     Route("GET /tags", 0, Draft_default, "")}
    \cup {Route("GET /notes/tag/:tag_label", 0, Draft_default, l) : l \in PathLabels}
    \cup {Route("GET /note/:id", id, Draft_default, "") : id \in SlotIds}
    \cup {Route("POST /note", 0, d, "") : d \in ServerDrafts}
    \cup {Route("PUT /note/:id", id, d, "") : id \in SlotIds, d \in ServerDrafts}
    \cup {Route("DELETE /note/:id", id, Draft_default, "") : id \in SlotIds}

\* The POST requests received and not yet served.
PendingPosts ==
    Cardinality({t \in Tasks : pc[t].op = "POST /note"
                               /\ pc[t].stage \in {"lock", "body"}})

\* The task t ends its handler with the result r: the store is the one the
\* handler leaves, the guard is dropped, and the request is answered with
\* r.status or, when the handler panicked, ends in the panic `message`.
Finish(t, r, message) ==
    /\ notes' = r.notes
    /\ tags' = r.tags
    /\ mutex' = unlock(mutex, r.outcome = "panic")
    /\ pc' = [pc EXCEPT ![t] =
                 IF r.outcome = "ok"
                 THEN [@ EXCEPT !.stage = "done", !.status = r.status]
                 ELSE [@ EXCEPT !.stage = "panicked", !.panic = message]]

Receive ==
    \E t \in Tasks, req \in Requests :
        /\ pc[t].stage \in {"idle", "done", "panicked"}
        /\ req.op = "POST /note" => Len(notes) + PendingPosts < MaxStored
        /\ pc' = [pc EXCEPT ![t] =
                     Task("lock", req.op, req.id, req.draft, req.label,
                          req.op \in NoteRoutes /\ req.id \in gone, 0, "")]
        /\ UNCHANGED <<notes, tags, last, mutex, gone>>

Lock ==
    \E t \in Tasks :
        /\ pc[t].stage = "lock"
        /\ lock_ready(mutex)
        /\ IF mutex.poisoned
           THEN /\ pc' = [pc EXCEPT ![t].stage = "panicked",
                                    ![t].panic = "mutex was poisoned"]
                /\ UNCHANGED mutex
           ELSE /\ pc' = [pc EXCEPT ![t].stage = "body"]
                /\ mutex' = [mutex EXCEPT !.holder = Some(t)]
        /\ UNCHANGED <<notes, tags, last, gone>>

Root ==
    \E t \in Tasks :
        /\ pc[t].stage = "body"
        /\ pc[t].op = "GET /"
        /\ Finish(t, handler_root(notes, tags), "")
        /\ UNCHANGED <<last, gone>>

NotesBody ==
    \E t \in Tasks :
        /\ pc[t].stage = "body"
        /\ pc[t].op = "GET /notes"
        /\ Finish(t, handler_notes(notes, tags), "")
        /\ UNCHANGED <<last, gone>>

TaggedNotesBody ==
    \E t \in Tasks :
        /\ pc[t].stage = "body"
        /\ pc[t].op = "GET /notes/tag/:tag_label"
        /\ Finish(t, handler_tagged_notes(notes, tags, pc[t].label), "")
        /\ UNCHANGED <<last, gone>>

TagsBody ==
    \E t \in Tasks :
        /\ pc[t].stage = "body"
        /\ pc[t].op = "GET /tags"
        /\ Finish(t, handler_tags(notes, tags), "")
        /\ UNCHANGED <<last, gone>>

GetNoteBody ==
    \E t \in Tasks :
        /\ pc[t].stage = "body"
        /\ pc[t].op = "GET /note/:id"
        /\ Finish(t, handler_get_note(notes, tags, pc[t].id), "")
        /\ UNCHANGED <<last, gone>>

AddNoteBody ==
    \E t \in Tasks :
        /\ pc[t].stage = "body"
        /\ pc[t].op = "POST /note"
        /\ Finish(t, handler_add_note(notes, tags, pc[t].draft),
                  "Note was just added and must be present")
        /\ UNCHANGED <<last, gone>>

\* The lookup and the owner check that open edit_note and delete_note.
Checked(t) ==
    LET user == User(0)
        found == note(notes, pc[t].id)
    IN IF found = None
       THEN Finish(t, Response(notes, tags, "ok", 404, None, <<>>), "")
       ELSE IF found[1].user # user.id
            THEN Finish(t, Response(notes, tags, "ok", 401, None, <<>>), "")
            ELSE /\ pc' = [pc EXCEPT ![t].stage = "mutate"]
                 /\ UNCHANGED <<notes, tags, mutex>>

EditNoteCheck ==
    \E t \in Tasks :
        /\ pc[t].stage = "body"
        /\ pc[t].op = "PUT /note/:id"
        /\ Checked(t)
        /\ UNCHANGED <<last, gone>>

EditNoteUpdate ==
    \E t \in Tasks :
        /\ pc[t].stage = "mutate"
        /\ pc[t].op = "PUT /note/:id"
        /\ LET r == update_note(notes, tags, pc[t].draft, pc[t].id)
           IN Finish(t, Response(r.notes, r.tags, r.outcome, 200, r.ret, <<>>),
                     "Note does not exist")
        /\ UNCHANGED <<last, gone>>

DeleteNoteCheck ==
    \E t \in Tasks :
        /\ pc[t].stage = "body"
        /\ pc[t].op = "DELETE /note/:id"
        /\ Checked(t)
        /\ UNCHANGED <<last, gone>>

DeleteNoteDelete ==
    \E t \in Tasks :
        /\ pc[t].stage = "mutate"
        /\ pc[t].op = "DELETE /note/:id"
        /\ LET r == delete_note(notes, tags, pc[t].id)
           IN Finish(t, Response(r.notes, r.tags, r.outcome, 200, None, <<>>), "")
        /\ gone' = gone \cup {pc[t].id}
        /\ UNCHANGED last

NextServer ==
    \/ Receive
    \/ Lock
    \/ Root
    \/ NotesBody
    \/ TaggedNotesBody
    \/ TagsBody
    \/ GetNoteBody
    \/ AddNoteBody
    \/ EditNoteCheck
    \/ EditNoteUpdate
    \/ DeleteNoteCheck
    \/ DeleteNoteDelete

SpecServer == Init /\ [][NextServer]_vars

(***************************************************************************)
(* Vocabulary of the properties.                                           *)
(***************************************************************************)
TagValues == {Tag_new(i, l) : i \in 0..Cardinality(Labels), l \in Labels}

\* The orders in which an iteration can yield the elements of the set S.
Orderings(S) ==
    {o \in [1..Cardinality(S) -> S] : \A i, j \in 1..Cardinality(S) : o[i] = o[j] => i = j}

\* The position of the first occurrence of x in the sequence s.
FirstIndex(s, x) == CHOOSE i \in 1..Len(s) : s[i] = x /\ \A j \in 1..(i - 1) : s[j] # x

\* r lists, in storage order and each once, exactly the stored notes at the
\* positions in `want`.
ListsExactly(r, want) ==
    /\ Len(r) = Cardinality(want)
    /\ \A k \in 1..Len(r) : \E i \in want : r[k] = notes[i]
    /\ \A i \in want : \E k \in 1..Len(r) : r[k] = notes[i] /\ r[k].id = i - 1
    /\ \A k, l \in 1..Len(r) : k < l => r[k].id < r[l].id

Yielded(id) ==
    \/ \E n \in Range(notes_of(notes)) : n.id = id
    \/ \E u \in Users : \E n \in Range(user_notes(notes, u)) : n.id = id
    \/ \E t \in TagValues : \E n \in Range(tagged_notes(notes, t)) : n.id = id
    \/ note(notes, id) # None

(***************************************************************************)
(* C1.  In every reachable store state, for every draft (any visibility,   *)
(* Deleted included) and every user u, add_note(d, u) completes and        *)
(* returns the stored note r; immediately afterwards note(r.id) returns a  *)
(* note equal to r, and r.user equals u.id.                                *)
(* The engine looks the new note up through note(), which skips Deleted    *)
(* notes: for a draft marked Deleted the expect() in add_note panics.      *)
(***************************************************************************)
C1_AddNoteReturnsStoredNote ==
    last.op = "add_note" =>
        /\ last.outcome = "ok"
        /\ last.note # None
        /\ note(notes, last.note[1].id) = last.note
        /\ last.note[1].user = last.user.id

(***************************************************************************)
(* C2.  Once delete_note(id) has returned true, the note is never again    *)
(* yielded by notes(), user_notes(u) or tagged_notes(t), and note(id)      *)
(* stays none, whatever operations follow.  Stated for the state in which  *)
(* delete_note has just returned true and for the state after one more     *)
(* operation: update_note(d, id) with a draft that is not Deleted makes    *)
(* the note visible again.                                                 *)
(***************************************************************************)
C2_RemovedNoteNeverYielded ==
    [][\A id \in Ids :
          (last.op = "delete_note" /\ last.flag /\ last.id = id) =>
              (~Yielded(id) /\ ~Yielded(id)')]_vars

(***************************************************************************)
(* C3.  The note at storage position i has id i and the tag at storage     *)
(* position j has id j; the note add_note returns has id = number of notes *)
(* stored before, and add_tag returns the position of the tag with its     *)
(* label.  (Ids unique, from 0, sequential; two independent id spaces.)    *)
(***************************************************************************)
C3_SequentialIds ==
    /\ \A i \in 1..Len(notes) : notes[i].id = i - 1
    /\ \A j \in 1..Len(tags) : tags[j].id = j - 1
    /\ (last.op = "add_note" /\ last.outcome = "ok") =>
           last.note[1].id = Len(notes) - 1
    /\ last.op = "add_tag" =>
           (last.rid < Len(tags) /\ tags[last.rid + 1].label = last.label)

C3_Witness ==
    /\ last.op = "add_note"
    /\ last.outcome = "ok"
    /\ Len(notes) = 3
    /\ Len(tags) = 2
    /\ last.note[1].id = 2
    /\ \E t \in last.note[1].tags : t.id = 0

(***************************************************************************)
(* C4.  Tag storage never holds two tags with the same label; resolving a  *)
(* label list again (the one add_note / update_note has just resolved, or  *)
(* any list whose labels are all stored) gives the stored tags and creates *)
(* no new tag.                                                             *)
(***************************************************************************)
C4_NoDuplicateTags ==
    /\ \A i, j \in 1..Len(tags) : tags[i].label = tags[j].label => i = j
    /\ last.op \in {"add_note", "update_note"} =>
           LET again == map_tags(tags, last.draft.tags)
           IN /\ again.store = tags
              /\ again.tags \subseteq Range(tags)
              /\ last.note # None => again.tags = last.note[1].tags
    /\ \A d \in Drafts :
           Range(d.tags) \subseteq {t.label : t \in Range(tags)} =>
               map_tags(tags, d.tags).store = tags

C4_Witness ==
    /\ last.op = "add_note"
    /\ last.draft.tags = <<"foo", "bar">>
    /\ Len(notes) = 2
    /\ notes[1].tags = notes[2].tags
    /\ Cardinality(notes[1].tags) = 2
    /\ Len(tags) = 2

(***************************************************************************)
(* C5.  After delete_note(id) on an id that occupies a storage slot,       *)
(* notes() no longer yields that note, note(id) returns none, and the      *)
(* number of stored notes is the same as before the call.                  *)
(***************************************************************************)
C5_DeleteHidesNoteKeepsSlot ==
    [][(last'.op = "delete_note" /\ last'.id < Len(notes)) =>
           /\ last'.flag = TRUE
           /\ Len(notes') = Len(notes)
           /\ note(notes', last'.id) = None
           /\ \A n \in Range(notes_of(notes')) : n.id # last'.id]_vars

C5_Witness ==
    /\ last.op = "delete_note"
    /\ last.flag
    /\ last.id = 1
    /\ Len(notes) = 3
    /\ Len(notes_of(notes)) = 2
    /\ note(notes, 1) = None

(***************************************************************************)
(* C6.  delete_note(id) with id >= number of stored notes returns false    *)
(* and leaves note storage and tag storage exactly as they were.           *)
(***************************************************************************)
C6_DeleteMissingIsNoOp ==
    [][(last'.op = "delete_note" /\ last'.id >= Len(notes)) =>
           /\ last'.flag = FALSE
           /\ notes' = notes
           /\ tags' = tags]_vars

C6_Witness ==
    /\ last.op = "delete_note"
    /\ last.id >= Len(notes)
    /\ ~last.flag
    /\ Len(notes) = 2
    /\ Len(notes_of(notes)) = 2
    /\ Len(tags) = 2

(***************************************************************************)
(* C7.  notes() yields exactly the stored notes whose visibility is not    *)
(* Deleted, each once, in storage order; with three notes stored and only  *)
(* the one at index 1 Deleted it yields the 1st and the 3rd, in that       *)
(* order.                                                                  *)
(***************************************************************************)
C7_NotesYieldsActiveInOrder ==
    /\ ListsExactly(notes_of(notes),
                    {i \in 1..Len(notes) : notes[i].visibility # "Deleted"})
    /\ (/\ Len(notes) = 3
        /\ notes[1].visibility # "Deleted"
        /\ notes[2].visibility = "Deleted"
        /\ notes[3].visibility # "Deleted") =>
           notes_of(notes) = <<notes[1], notes[3]>>

C7_Witness ==
    /\ last.op = "delete_note"
    /\ last.id = 1
    /\ Len(notes) = 3
    /\ notes[1].visibility # "Deleted"
    /\ notes[3].visibility # "Deleted"
    /\ Len(notes_of(notes)) = 2
    /\ notes_of(notes)[1].id = 0
    /\ notes_of(notes)[2].id = 2

(***************************************************************************)
(* C8.  For every tag value t (id and label), tagged_notes(t) yields       *)
(* exactly the non-Deleted notes whose tag set contains a tag equal to t   *)
(* in both id and label, in insertion order; a tag with a stored label but *)
(* another id matches no note.                                             *)
(***************************************************************************)
C8_TaggedNotesByWholeTag ==
    \A t \in TagValues :
        /\ ListsExactly(tagged_notes(notes, t),
                        {i \in 1..Len(notes) :
                            /\ notes[i].visibility # "Deleted"
                            /\ \E x \in notes[i].tags :
                                   x.id = t.id /\ x.label = t.label})
        /\ (\E s \in Range(tags) : s.label = t.label /\ s.id # t.id) =>
               tagged_notes(notes, t) = <<>>

C8_Witness ==
    /\ Len(notes) = 3
    /\ Len(tags) = 2
    /\ \E t \in Range(tags) :
          /\ Len(tagged_notes(notes, t)) = 1
          /\ tagged_notes(notes, t)[1].id = 2
          /\ notes[1].visibility = "Deleted" /\ t \in notes[1].tags
          /\ notes[2].visibility # "Deleted" /\ t \notin notes[2].tags
          /\ notes[2].tags # {}
          /\ tagged_notes(notes, Tag_new(1 - t.id, t.label)) = <<>>

(***************************************************************************)
(* C9.  For every user u, user_notes(u) yields exactly the notes whose     *)
(* owner equals u.id and whose visibility is not Deleted, in storage       *)
(* order.                                                                  *)
(***************************************************************************)
C9_UserNotesByOwnerActive ==
    \A u \in Users :
        ListsExactly(user_notes(notes, u),
                     {i \in 1..Len(notes) :
                         notes[i].user = u.id /\ notes[i].visibility # "Deleted"})

C9_Witness ==
    /\ Len(notes) = 3
    /\ notes[1].user = 1 /\ notes[1].visibility = "Deleted"
    /\ notes[2].user = 0 /\ notes[2].visibility # "Deleted"
    /\ notes[3].user = 1 /\ notes[3].visibility # "Deleted"
    /\ user_notes(notes, User(1)) = <<notes[3]>>
    /\ user_notes(notes, User(0)) = <<notes[2]>>

(***************************************************************************)
(* C10.  update_note(d, id) on an existing id replaces title, body, tag    *)
(* set (the stored tags of d's labels) and visibility with those of d and  *)
(* keeps the note's owner and id; in every step every stored note keeps    *)
(* its id and its owner.                                                   *)
(***************************************************************************)
C10_UpdateKeepsOwnerAndId ==
    [][/\ (last'.op = "update_note" /\ last'.id < Len(notes)) =>
              LET d == last'.draft
                  old == notes[last'.id + 1]
                  new == notes'[last'.id + 1]
              IN /\ last'.outcome = "ok"
                 /\ last'.note = Some(new)
                 /\ new.title = d.title
                 /\ new.body = d.body
                 /\ new.visibility = d.visibility
                 /\ new.tags = {t \in Range(tags') : t.label \in Range(d.tags)}
                 /\ new.user = old.user
                 /\ new.id = old.id
       /\ \A i \in 1..Len(notes) :
              /\ i <= Len(notes')
              /\ notes'[i].id = notes[i].id
              /\ notes'[i].user = notes[i].user]_vars

C10_Witness ==
    /\ last.op = "update_note"
    /\ last.outcome = "ok"
    /\ last.id = 1
    /\ Len(notes) = 2
    /\ notes[2].user = 1
    /\ notes[2].title = "FooTitle"
    /\ notes[2].body = "BarBody"
    /\ notes[2].visibility = "Private"
    /\ notes[2].tags = {Tag_new(1, "foo")}
    /\ notes[1].user = 0

(***************************************************************************)
(* C11.  update_note(d, id) with an id that occupies no storage slot ends  *)
(* in the panic outcome and never creates a note: the number and the       *)
(* contents of the stored notes are unchanged.                             *)
(***************************************************************************)
C11_UpdateMissingPanics ==
    [][(last'.op = "update_note" /\ last'.id >= Len(notes)) =>
           /\ last'.outcome = "panic"
           /\ last'.note = None
           /\ Len(notes') = Len(notes)
           /\ notes' = notes]_vars

C11_Witness ==
    /\ last.op = "update_note"
    /\ last.outcome = "panic"
    /\ last.id = 2
    /\ Len(notes) = 2
    /\ last.draft.title = "FooTitle"

(***************************************************************************)
(* C12.  add_tag(label) returns the id of the stored tag with exactly that *)
(* label when one exists and otherwise appends a new tag and returns its   *)
(* id; a second add_tag(label) returns the same id and leaves tag storage  *)
(* unchanged; the id is the one tag resolution (map_tags, as used by       *)
(* add_note and update_note) gives that label.                             *)
(***************************************************************************)
C12_AddTagFindsOrAppends ==
    [][last'.op = "add_tag" =>
           LET label == last'.label
               stored == {t \in Range(tags) : t.label = label}
               again == add_tag(notes', tags', label)
               resolved == map_tags(tags', <<label>>)
           IN /\ last'.outcome = "ok"
              /\ notes' = notes
              /\ stored # {} =>
                     (tags' = tags /\ \E t \in stored : t.id = last'.rid)
              /\ stored = {} =>
                     (/\ tags' = Append(tags, Tag_new(Len(tags), label))
                      /\ last'.rid = Len(tags))
              /\ again.ret = last'.rid
              /\ again.tags = tags'
              /\ resolved.tags = {Tag_new(last'.rid, label)}
              /\ resolved.store = tags']_vars

C12_Witness ==
    /\ last.op = "add_tag"
    /\ last.label = "foo"
    /\ last.rid = 1
    /\ Len(tags) = 2
    /\ Len(notes) = 1
    /\ Tag_new(1, "foo") \in notes[1].tags

(***************************************************************************)
(* C13.  Tag storage is append-only: in every step the tag sequence before *)
(* the step is a prefix of the tag sequence after it (no tag is removed,   *)
(* renamed or given another id), and tags() yields all stored tags in      *)
(* storage order.                                                          *)
(***************************************************************************)
C13_TagsAppendOnly ==
    [][/\ Len(tags) <= Len(tags')
       /\ \A j \in 1..Len(tags) : tags'[j] = tags[j]
       /\ Len(tags_of(tags')) = Len(tags')
       /\ \A j \in 1..Len(tags') : tags_of(tags')[j] = tags'[j]]_vars

C13_Witness ==
    /\ last.op = "add_tag"
    /\ last.label = "bar"
    /\ last.rid = 1
    /\ tags = <<Tag_new(0, "foo"), Tag_new(1, "bar")>>
    /\ Len(notes) = 2
    /\ notes[1].tags = {Tag_new(0, "foo")}
    /\ notes[2].tags = {}

(***************************************************************************)
(* C14.  The queries notes, tags, user_notes, tagged_notes, note and tag,  *)
(* as made by the GET handlers, leave note storage and tag storage         *)
(* unchanged; tag(label) for a label that is not stored returns none and   *)
(* creates no tag, and the tag-scoped handler answers 400 for it without   *)
(* changing the store.                                                     *)
(* The store is never changed by these requests.  Once a POST with a draft *)
(* marked Deleted has panicked under the guard (C23, C1) the mutex is      *)
(* poisoned, and the tag-scoped handler, like every handler, panics in     *)
(* lock().expect() instead of answering 400.                               *)
(***************************************************************************)
C14_QueriesChangeNothing ==
    [][/\ last'.op \in {"GET /", "GET /notes", "GET /note/:id",
                        "GET /notes/tag/:tag_label", "GET /tags"} =>
              (notes' = notes /\ tags' = tags)
       /\ last'.op = "GET /notes/tag/:tag_label" =>
              LET stored == {t \in Range(tags) : t.label = last'.label}
              IN /\ stored = {} =>
                        (/\ tag(tags, last'.label) = None
                         /\ tag(tags', last'.label) = None
                         /\ last'.status = 400
                         /\ last'.list = <<>>)
                 /\ stored # {} =>
                        (/\ tag(tags, last'.label) # None
                         /\ tag(tags, last'.label)[1] \in stored)]_vars

C14_Witness ==
    /\ last.op = "GET /notes/tag/:tag_label"
    /\ last.label = "nonexistent"
    /\ last.status = 400
    /\ Len(tags) = 2
    /\ Len(notes) = 2
    /\ Len(notes_of(notes)) = 2
    /\ tag(tags, "nonexistent") = None

(***************************************************************************)
(* C15.  Round trip: for every stored note n and every order in which its  *)
(* tag set can be iterated, update_note(Draft::from(n), n.id) yields a     *)
(* note equal to n and leaves note storage and tag storage unchanged; the  *)
(* draft carries n's title, body, visibility and the labels of its tags.   *)
(***************************************************************************)
C15_NoteDraftRoundTrip ==
    \A i \in 1..Len(notes) :
        \A o \in Orderings(notes[i].tags) :
            LET n == notes[i]
                d == Draft_from(n, o)
                r == update_note(notes, tags, d, n.id)
            IN /\ d.title = n.title
               /\ d.body = n.body
               /\ d.visibility = n.visibility
               /\ Len(d.tags) = Cardinality(n.tags)
               /\ Range(d.tags) = {t.label : t \in n.tags}
               /\ r.outcome = "ok"
               /\ r.ret = Some(n)
               /\ r.notes = notes
               /\ r.tags = tags

C15_Witness ==
    /\ last.op = "update_note"
    /\ last.outcome = "ok"
    /\ last.id = 1
    /\ Len(notes) = 2
    /\ notes[2].user = 1
    /\ notes[2].visibility = "Public"
    /\ Cardinality(notes[2].tags) = 2
    /\ \E o \in Orderings(notes[2].tags) : last.draft = Draft_from(notes[2], o)
    /\ last.note = Some(notes[2])

(***************************************************************************)
(* C16 as claimed.  For every existing id and every draft d (any           *)
(* visibility), after update_note(d, id) returns note r, note(id) returns  *)
(* a note equal to r whose title and body are those of d.                  *)
(***************************************************************************)
C16_UpdateThenNoteAnyVisibility ==
    (last.op = "update_note" /\ last.outcome = "ok") =>
        /\ note(notes, last.id) = last.note
        /\ last.note[1].title = last.draft.title
        /\ last.note[1].body = last.draft.body

(***************************************************************************)
(* C16 as amended.  After update_note(d, id) on an existing id returns     *)
(* note r, r has the title and body of d; note(id) returns a note equal to *)
(* r when the visibility of d is not Deleted, and none when it is Deleted. *)
(***************************************************************************)
C16_UpdateThenNote ==
    (last.op = "update_note" /\ last.outcome = "ok") =>
        /\ last.note # None
        /\ last.note[1].title = last.draft.title
        /\ last.note[1].body = last.draft.body
        /\ last.note[1].id = last.id
        /\ last.draft.visibility # "Deleted" => note(notes, last.id) = last.note
        /\ last.draft.visibility = "Deleted" => note(notes, last.id) = None

C16_Witness ==
    /\ last.op = "update_note"
    /\ last.outcome = "ok"
    /\ last.id = 1
    /\ Len(notes) = 3
    /\ last.draft.title = "FooTitle"
    /\ last.draft.body = "BarBody"
    /\ note(notes, 1) = last.note
    /\ note(notes, 1)[1].title = "FooTitle"
    /\ note(notes, 1)[1].body = "BarBody"

(***************************************************************************)
(* C17.  Tag resolution of a draft whose label list repeats a label        *)
(* (stored or not yet stored) puts exactly one tag for each label of the   *)
(* list in the note's tag set and appends at most one new tag per label;   *)
(* the new tags are those of the labels not stored before, with ids in the *)
(* order of their first occurrence in the list.                            *)
(***************************************************************************)
C17_RepeatedLabelsCollapse ==
    [][(last'.op \in {"add_note", "update_note"}) =>
           LET ls == last'.draft.tags
               fresh == SubSeq(tags', Len(tags) + 1, Len(tags'))
               known == {t.label : t \in Range(tags)}
               slot == IF last'.op = "add_note" THEN Len(notes') ELSE last'.id + 1
           IN /\ Len(tags') >= Len(tags)
              /\ {t.label : t \in Range(fresh)} = Range(ls) \ known
              /\ Len(fresh) = Cardinality(Range(ls) \ known)
              /\ \A a, b \in 1..Len(fresh) :
                     a < b => FirstIndex(ls, fresh[a].label) < FirstIndex(ls, fresh[b].label)
              /\ slot <= Len(notes') =>
                     /\ {t.label : t \in notes'[slot].tags} = Range(ls)
                     /\ \A l \in Range(ls) :
                            Cardinality({t \in notes'[slot].tags : t.label = l}) = 1]_vars

C17_Witness ==
    /\ last.op = "update_note"
    /\ last.outcome = "ok"
    /\ last.draft.tags = <<"bar", "foo", "bar">>
    /\ last.id = 1
    /\ tags = <<Tag_new(0, "bar"), Tag_new(1, "foo")>>
    /\ Len(notes) = 2
    /\ notes[1].tags = {}
    /\ notes[2].tags = {Tag_new(0, "bar"), Tag_new(1, "foo")}

(***************************************************************************)
(* C18.  Referential integrity: every tag in every stored note's tag set   *)
(* (deleted notes included) equals, in id and label, the tag stored at     *)
(* position tag.id of tag storage, and a note's tag set holds at most one  *)
(* tag per label.                                                          *)
(***************************************************************************)
C18_NoteTagsAreStoredTags ==
    \A i \in 1..Len(notes) :
        /\ \A t \in notes[i].tags : t.id < Len(tags) /\ tags[t.id + 1] = t
        /\ \A t, u \in notes[i].tags : t.label = u.label => t = u

C18_Witness ==
    /\ Len(notes) = 3
    /\ Len(tags) = 2
    /\ notes[1].visibility = "Deleted"
    /\ notes[1].tags = {tags[1], tags[2]}
    /\ notes[2].tags = {tags[2]}
    /\ notes[3].tags = {tags[1], tags[2]}
    /\ tags[2].label = "foo"

(***************************************************************************)
(* C19.  The number of stored notes never decreases and grows only through *)
(* add_note, by exactly one per call; update_note and delete_note keep the *)
(* count and change no note other than the one at the given id, and        *)
(* delete_note changes only that note's visibility.                        *)
(***************************************************************************)
C19_SlotsOnlyGrowByAddNote ==
    [][/\ Len(notes') >= Len(notes)
       /\ last'.op = "add_note" =>
              (Len(notes') = Len(notes) + 1 /\ SubSeq(notes', 1, Len(notes)) = notes)
       /\ last'.op # "add_note" => Len(notes') = Len(notes)
       /\ last'.op \in {"update_note", "delete_note"} =>
              \A i \in 1..Len(notes) : i # last'.id + 1 => notes'[i] = notes[i]
       /\ (last'.op = "delete_note" /\ last'.id < Len(notes)) =>
              notes'[last'.id + 1] =
                  [notes[last'.id + 1] EXCEPT !.visibility = "Deleted"]
       /\ last'.op = "add_tag" => notes' = notes]_vars

C19_Witness ==
    /\ last.op = "delete_note"
    /\ last.flag
    /\ last.id = 0
    /\ Len(notes) = 2
    /\ notes[1].visibility = "Deleted"
    /\ notes[1].title = "FooTitle"
    /\ notes[1].tags = {Tag_new(1, "foo")}
    /\ notes[1].user = 1
    /\ notes[2].visibility = "Public"

(***************************************************************************)
(* C20.  delete_note(id) returns true exactly when id is smaller than the  *)
(* number of stored notes, whatever the note's visibility: on a note that  *)
(* is already Deleted it returns true again and leaves the store           *)
(* unchanged.                                                              *)
(***************************************************************************)
C20_DeleteIsIdempotent ==
    [][last'.op = "delete_note" =>
           /\ last'.flag = (last'.id < Len(notes))
           /\ (last'.id < Len(notes) /\ notes[last'.id + 1].visibility = "Deleted") =>
                  (last'.flag = TRUE /\ notes' = notes /\ tags' = tags)
           /\ LET again == delete_note(notes', tags', last'.id)
              IN /\ again.ret = last'.flag
                 /\ again.notes = notes'
                 /\ again.tags = tags']_vars

C20_Witness ==
    /\ last.op = "delete_note"
    /\ last.flag
    /\ last.id = 1
    /\ Len(notes) = 2
    /\ notes[2].visibility = "Deleted"
    /\ notes[2].title = "Foo"
    /\ notes[2].tags = {Tag_new(0, "bar"), Tag_new(1, "foo")}
    /\ notes[1].visibility = "Private"

(***************************************************************************)
(* C21.  Under any interleaving of concurrent requests a handler holds the *)
(* guard of the engine lock for its whole body, from the existence and     *)
(* ownership check to the mutation: a task that is about to call           *)
(* update_note or delete_note holds the guard, and note(id) still resolves *)
(* to a note of the acting user, as it did when the task checked it.  No   *)
(* request ends in update_note's panic "Note does not exist".              *)
(***************************************************************************)
C21_UpdateOnlyAfterCheck ==
    /\ \A t \in Tasks :
           pc[t].stage \in {"body", "mutate"} => mutex.holder = Some(t)
    /\ \A t \in Tasks :
           pc[t].stage = "mutate" =>
               /\ note(notes, pc[t].id) # None
               /\ note(notes, pc[t].id)[1].user = User(0).id
    /\ \A t \in Tasks : pc[t].panic # "Note does not exist"

C21_Witness ==
    /\ pc[1].stage = "mutate"
    /\ pc[1].op = "PUT /note/:id"
    /\ pc[1].id = 1
    /\ pc[2].stage = "lock"
    /\ pc[2].op = "DELETE /note/:id"
    /\ pc[2].id = 1
    /\ mutex.holder = Some(1)
    /\ Len(notes) = 2
    /\ note(notes, 1) # None

(***************************************************************************)
(* C22.  Once a DELETE of note id has answered 200, the stored note stays  *)
(* Deleted and every GET, PUT and DELETE of that id received later is      *)
(* answered, with 404, under any interleaving of requests.                 *)
(* A POST whose draft is marked Deleted panics under the guard (C23, C1)   *)
(* and poisons the mutex; a request received after that panics in          *)
(* lock().expect() and is not answered at all.                             *)
(***************************************************************************)
C22_DeletedStays404 ==
    [][/\ \A id \in gone : notes'[id + 1].visibility = "Deleted"
       /\ \A t \in Tasks :
              (/\ pc[t].late
               /\ pc[t].stage \in {"lock", "body", "mutate"}
               /\ pc'[t].stage \in {"done", "panicked"}) =>
                  (pc'[t].stage = "done" /\ pc'[t].status = 404)]_vars

(***************************************************************************)
(* C23.  No handler panics while it holds the guard of the engine lock,    *)
(* whatever the request carries: the mutex is never poisoned and no        *)
(* request ends in a panic instead of an answer.                           *)
(* add_note's expect() panics for a draft marked Deleted, under the guard  *)
(* the POST handler holds.                                                 *)
(***************************************************************************)
C23_NoPanicUnderLock ==
    /\ ~mutex.poisoned
    /\ \A t \in Tasks : pc[t].stage # "panicked"

(***************************************************************************)
(* C24.  update_note(d, id) with an id that occupies no storage slot       *)
(* leaves tag storage as it was: no tag is created for the labels of d.    *)
(* The engine resolves the labels of d (map_tags) before it looks the slot *)
(* up, so the labels that were not stored are stored when it panics.       *)
(***************************************************************************)
C24_FailedUpdateKeepsTags ==
    [][(last'.op = "update_note" /\ last'.id >= Len(notes)) =>
           (/\ tags' = tags
            /\ \A label \in Range(last'.draft.tags) :
                   tag(tags, label) = None => tag(tags', label) = None)]_vars
====
